---- MODULE Spec2Model ----
(***************************************************************************)
(* The type/value algebra and the declaration loader of runway-browser.    *)
(*                                                                         *)
(* Objects live in two heaps: `types` (Type instances) and `values` (Value *)
(* instances).  A reference is the index of the object in its heap, so     *)
(* reference equality (==, !=  on objects) is equality of indices and two  *)
(* holders of one index see each other's in-place mutations.  0 stands for *)
(* JavaScript's undefined.                                                 *)
(*                                                                         *)
(* src/unnamed/part_000 is the main program: Value/Type classes, the       *)
(* Type.make factory and load.  src/types/either.js is the tagged-union    *)
(* module (EitherValue, EitherTag, EitherVariant, EitherType).  Both files *)
(* define a class EitherValue and a class EitherType; the definitions      *)
(* modelling part_000's carry the prefix Main.                             *)
(***************************************************************************)
EXTENDS Integers, Sequences, FiniteSets, TLC

VARIABLES
  types,    \* heap of Type objects
  values,   \* heap of Value objects
  env,      \* Environment objects: <<prelude, module>> once both exist
  op,       \* the last call made and how it ended
  phase,    \* position of the main program / of the factory run
  cur,      \* the Environment the running load fills (0: none)
  nloaded,  \* declarations processed so far (all loads)
  ncalls,   \* calls made by client code after loading
  input     \* the type declaration handed to Type.make (SpecTypes)

vars == <<types, values, env, op, phase, cur, nloaded, ncalls, input>>

-----------------------------------------------------------------------------
(* Bounds of the model *)

\* range literals of declarations are drawn from 0..MaxLit
MaxLit == 1
\* declarations processed in one session (prelude and module together)
MaxDecls == 2
\* EitherValues constructed in one session
MaxEithers == 2
\* calls client code makes on the values of a loaded environment
MaxCalls == 1

Lits == 0 .. MaxLit
\* integers offered to assign: the literals and one beyond each end
AssignInts == -1 .. MaxLit + 1

Undefined == 0
NoName == "undefined"
EmptyMap == [n \in {} |-> 0]

TypeNames == {"A", "B"}
VarNames == {"x"}

-----------------------------------------------------------------------------
(* Parsed declarations (the parser's output, read-only) *)

TypeDecl(kind) ==
  [kind |-> kind, low |-> 0, high |-> 0, value |-> "", base |-> "",
   fields |-> <<>>, args |-> <<>>, indexBy |-> <<>>]

RangeDecls ==
  {[TypeDecl("range") EXCEPT !.low = l, !.high = h] : l \in Lits, h \in Lits}
AliasDecls ==
  {[TypeDecl("alias") EXCEPT !.value = n] : n \in TypeNames}
LeafDecls == RangeDecls \cup AliasDecls

Field(id, t) == [id |-> id, kind |-> "field", type |-> <<t>>]
EnumVariant(id) == [id |-> id, kind |-> "enumvariant", type |-> <<>>]

RecordDecls ==
  {[TypeDecl("record") EXCEPT !.fields = <<Field("x", t)>>] : t \in LeafDecls}
  \cup {[TypeDecl("record") EXCEPT !.fields = <<Field("x", t), Field("y", t)>>] :
          t \in RangeDecls}
EitherDecls ==
  {[TypeDecl("either") EXCEPT !.fields = <<Field("P", r), Field("Q", r)>>] :
     r \in {d \in RecordDecls : Len(d.fields) = 1 /\ d.fields[1].type[1].kind = "range"}}
ArrayDecls ==
  {[TypeDecl("generic") EXCEPT !.base = b, !.args = <<v>>, !.indexBy = <<i>>] :
     b \in {"Array"}, v \in RangeDecls, i \in LeafDecls}
  \cup {[TypeDecl("generic") EXCEPT !.base = "Set", !.args = <<v>>, !.indexBy = <<v>>] :
          v \in {[TypeDecl("range") EXCEPT !.low = 0, !.high = 0]}}
OtherDecls == {TypeDecl("bogus")}

\* declarations of either types as types/either.js reads them: a variant is
\* an enumvariant node, or a node with a record type
RecordVariant(id, t) == [id |-> id, kind |-> "variant", type |-> <<t>>]
VariantRecordDecls ==
  {[TypeDecl("record") EXCEPT !.fields = <<Field("x", t)>>] : t \in RangeDecls}
EitherJsDecls ==
  {[TypeDecl("either") EXCEPT !.fields = fs] :
     fs \in UNION {{<<RecordVariant("A", r), EnumVariant("B")>>,
                    <<EnumVariant("B"), RecordVariant("A", r)>>,
                    <<EnumVariant("B"), EnumVariant("C")>>,
                    <<RecordVariant("A", r), RecordVariant("C", r)>>} :
                   r \in VariantRecordDecls}}
  \cup {[TypeDecl("either") EXCEPT !.fields =
          <<EnumVariant("B"),
            RecordVariant("A", [TypeDecl("record") EXCEPT !.fields =
                                  <<Field("x", [TypeDecl("alias") EXCEPT !.value = "B"])>>])>>]}

AllTypeDecls ==
  RangeDecls \cup AliasDecls \cup RecordDecls \cup EitherDecls \cup ArrayDecls
  \cup OtherDecls

-----------------------------------------------------------------------------
(* Objects *)

TypeObj(kind, e, name) ==
  [kind |-> kind, env |-> e, name |-> name, low |-> 0, high |-> 0,
   fieldtypes |-> <<>>, valuetype |-> 0, indextype |-> 0,
   parenttype |-> 0, recordtype |-> 0, tag |-> 0]

ValueObj(kind, type) ==
  [kind |-> kind, type |-> type, value |-> 0, variant |-> "",
   props |-> EmptyMap, items |-> <<>>, tag |-> 0, name |-> ""]

Store(ts, vs, es) == [types |-> ts, values |-> vs, env |-> es]

\* the result of a call that returns an object: ok = FALSE when it threw
Ret(ok, id, st) == [ok |-> ok, id |-> id, st |-> st]

Put(map, k, v) == [n \in DOMAIN map \cup {k} |-> IF n = k THEN v ELSE map[n]]
Delete(map, k) == [n \in DOMAIN map \ {k} |-> map[n]]

-----------------------------------------------------------------------------
(* Environment: a scope with a parent.  environment.js is not among the     *)
(* sources; these four follow the specification's section 4.4.              *)

Environment(parent) == [parent |-> parent, types |-> EmptyMap, vars |-> EmptyMap]

RECURSIVE getType(_, _, _)
getType(es, e, name) ==
  IF name \in DOMAIN es[e].types THEN es[e].types[name]
  ELSE IF es[e].parent = 0 THEN Undefined
  ELSE getType(es, es[e].parent, name)

RECURSIVE getVar(_, _, _)
getVar(es, e, name) ==
  IF name \in DOMAIN es[e].vars THEN es[e].vars[name]
  ELSE IF es[e].parent = 0 THEN Undefined
  ELSE getVar(es, es[e].parent, name)

assignType(es, e, name, t) == [es EXCEPT ![e].types = Put(@, name, t)]
assignVar(es, e, name, v) == [es EXCEPT ![e].vars = Put(@, name, v)]

-----------------------------------------------------------------------------
(* Types: the factory and the constructors of part_000.  A constructor that *)
(* throws returns ok = FALSE and the store as it was at the throw: the      *)
(* objects made before the throw exist, referenced by nothing.              *)

RECURSIVE TypeMake(_, _, _, _)
RECURSIVE MakeFieldTypes(_, _, _)

\* class RangeType: copies the declared bounds, whatever they are
RangeType(decl, e, name, st) ==
  Ret(TRUE, Len(st.types) + 1,
      [st EXCEPT !.types =
         Append(@, [TypeObj("range", e, name) EXCEPT !.low = decl.low, !.high = decl.high])])

\* the fieldtypes built so far, and whether building them has thrown
Acc(st) == [ok |-> TRUE, fts |-> <<>>, st |-> st]

\* Type.make(field.type, this.env); a field without a type makes Type.make
\* read undefined.kind: a TypeError
FieldTypeOf(f, e, st) ==
  IF f.type = <<>> THEN Ret(FALSE, Undefined, st)
  ELSE TypeMake(f.type[1], e, NoName, st)

\* ({name: field.id.value, type: <the Type r>}) joins the mapped array
FieldTypeAdd(f, acc, r) ==
  IF ~r.ok THEN [ok |-> FALSE, fts |-> <<>>, st |-> r.st]
  ELSE [ok |-> TRUE, fts |-> Append(acc.fts, [name |-> f.id, type |-> r.id]), st |-> r.st]

\* decl.fields.map(field => ({name: field.id.value, type: Type.make(field.type, env)}))
MakeFieldTypes(fields, e, acc) ==
  IF fields = <<>> \/ ~acc.ok THEN acc
  ELSE MakeFieldTypes(Tail(fields), e,
                      FieldTypeAdd(Head(fields), acc, FieldTypeOf(Head(fields), e, acc.st)))

\* this.fieldtypes = <the mapped array>
FieldsTypeDone(self, r) ==
  IF ~r.ok THEN Ret(FALSE, Undefined, r.st)
  ELSE Ret(TRUE, self, [r.st EXCEPT !.types[self].fieldtypes = r.fts])

\* class RecordType / class EitherType of part_000: the object, then its fieldtypes
FieldsType(kind, decl, e, name, st) ==
  FieldsTypeDone(Len(st.types) + 1,
                 MakeFieldTypes(decl.fields, e,
                                Acc([st EXCEPT !.types = Append(@, TypeObj(kind, e, name))])))

RecordType(decl, e, name, st) == FieldsType("record", decl, e, name, st)
MainEitherType(decl, e, name, st) == FieldsType("either", decl, e, name, st)

\* this.indextype = Type.make(this.decl.indexBy, this.env)
ArrayTypeDone(self, valuetype, i) ==
  IF ~i.ok THEN i
  ELSE Ret(TRUE, self, [i.st EXCEPT !.types[self].valuetype = valuetype,
                                    !.types[self].indextype = i.id])

\* this.valuetype = Type.make(this.decl.args[0], this.env), then the index type
ArrayTypeIndex(decl, e, self, v) ==
  IF ~v.ok THEN v
  ELSE ArrayTypeDone(self, v.id, TypeMake(decl.indexBy[1], e, NoName, v.st))

\* class ArrayType; no check that the index type is a range type
ArrayType(decl, e, name, st) ==
  ArrayTypeIndex(decl, e, Len(st.types) + 1,
                 TypeMake(decl.args[1], e, NoName,
                          [st EXCEPT !.types = Append(@, TypeObj("array", e, name))]))

\* the alias branch, had it returned a copy of the Type the name is bound to
AliasFound_Copy(t, st) ==
  IF t = Undefined THEN Ret(FALSE, Undefined, st)
  ELSE Ret(TRUE, Len(st.types) + 1, [st EXCEPT !.types = Append(@, st.types[t])])

\* if (t === undefined) throw; return t
AliasFound(t, st) ==
  IF t = Undefined THEN Ret(FALSE, Undefined, st) ELSE Ret(TRUE, t, st)

\* the alias branch of Type.make: the Type the name is bound to, itself
AliasType(decl, e, st) == AliasFound(getType(st.env, e, decl.value), st)

\* static make(decl, env, name)
TypeMake(decl, e, name, st) ==
  IF decl.kind = "range" THEN RangeType(decl, e, name, st)
  ELSE IF decl.kind = "record" THEN RecordType(decl, e, name, st)
  ELSE IF decl.kind = "either" THEN MainEitherType(decl, e, name, st)
  ELSE IF decl.kind = "alias" THEN AliasType(decl, e, st)
  ELSE IF decl.kind = "generic" THEN
    IF decl.base = "Array" THEN ArrayType(decl, e, name, st)
    ELSE Ret(FALSE, Undefined, st)
  ELSE Ret(FALSE, Undefined, st)

-----------------------------------------------------------------------------
(* Values: the constructors reached through makeDefaultValue *)

RECURSIVE MakeDefaultValue(_, _)
RECURSIVE RecordFields(_, _, _)
RECURSIVE MakeItems(_, _, _)

\* class RangeValue, constructor: value = type.low
RangeValue(t, st) ==
  Ret(TRUE, Len(st.values) + 1,
      [st EXCEPT !.values = Append(@, [ValueObj("range", t) EXCEPT !.value = st.types[t].low])])

\* this[name] = <the Value r>
FieldSet(self, name, r) == [r.st EXCEPT !.values[self].props = Put(@, name, r.id)]

\* forEach fieldtype: this[fieldtype.name] = fieldtype.type.makeDefaultValue()
RecordFields(fts, self, st) ==
  IF fts = <<>> THEN st
  ELSE RecordFields(Tail(fts), self,
                    FieldSet(self, Head(fts).name, MakeDefaultValue(Head(fts).type, st)))

\* class RecordValue, constructor
RecordValue(t, st) ==
  Ret(TRUE, Len(st.values) + 1,
      RecordFields(st.types[t].fieldtypes, Len(st.values) + 1,
                   [st EXCEPT !.values = Append(@, ValueObj("record", t))]))

\* class EitherValue of part_000, constructor: the first variant, with its
\* default; reading fieldtypes[0].name of no variants is a TypeError
MainEitherValue(t, st) ==
  LET fts == st.types[t].fieldtypes
  IN  IF fts = <<>> THEN Ret(FALSE, Undefined, st)
      ELSE Ret(TRUE, Len(st.values) + 1,
               FieldSet(Len(st.values) + 1, fts[1].name,
                        MakeDefaultValue(fts[1].type,
                          [st EXCEPT !.values =
                             Append(@, [ValueObj("either", t) EXCEPT
                                          !.variant = fts[1].name])])))

\* one more item
ItemAdd(acc, r) == [ids |-> Append(acc.ids, r.id), st |-> r.st]

\* Array.from({length: n}, () => valuetype.makeDefaultValue())
MakeItems(n, t, acc) ==
  IF n <= 0 THEN acc
  ELSE MakeItems(n - 1, t, ItemAdd(acc, MakeDefaultValue(t, acc.st)))

\* indextype.high - indextype.low + 1; NaN (no items) unless the index type
\* has numeric low and high
ArrayLength(it) == IF it.kind = "range" THEN it.high - it.low + 1 ELSE 0

\* this.items = <the array made>
ArrayItems(self, r) == Ret(TRUE, self, [r.st EXCEPT !.values[self].items = r.ids])

\* class ArrayValue, constructor
ArrayValue(t, st) ==
  ArrayItems(Len(st.values) + 1,
             MakeItems(ArrayLength(st.types[st.types[t].indextype]), st.types[t].valuetype,
                       [ids |-> <<>>,
                        st |-> [st EXCEPT !.values = Append(@, ValueObj("array", t))]]))

-----------------------------------------------------------------------------
(* types/either.js: EitherType, EitherVariant, EitherTag and the EitherValue *)
(* constructor.  An EitherVariant is a Type; its EitherTag is a Value.       *)
(* fieldtypes[i] of an EitherType is the pair <name, variant> standing for   *)
(* the EitherVariant object `variant`.  The factory required from            *)
(* ./factory.js is taken to be Type.make.                                    *)

RECURSIVE EitherVariants(_, _, _, _)

\* class EitherTag, constructor
EitherTag(type, name) == [ValueObj("EitherTag", type) EXCEPT !.name = name]

\* super(decl, env, name); this.parenttype = parenttype;
\* this.tag = new EitherTag(this, name)
VariantNew(e, name, parenttype, st) ==
  [st EXCEPT
     !.types = Append(@, [TypeObj("EitherVariant", e, name) EXCEPT
                            !.parenttype = parenttype, !.tag = Len(st.values) + 1]),
     !.values = Append(@, EitherTag(Len(st.types) + 1, name))]

\* this.recordtype = <the Type r>
VariantRecord(self, r) ==
  IF ~r.ok THEN r
  ELSE Ret(TRUE, self, [r.st EXCEPT !.types[self].recordtype = r.id])

\* class EitherVariant, constructor: the variant owns one tag; an enum variant
\* binds its tag as a constant of the environment, any other variant builds
\* its record type with the factory
EitherVariant(decl, e, name, parenttype, st) ==
  IF decl.kind = "enumvariant"
  THEN Ret(TRUE, Len(st.types) + 1,
           [VariantNew(e, name, parenttype, st) EXCEPT
              !.env = assignVar(@, e, name, Len(st.values) + 1)])
  ELSE VariantRecord(Len(st.types) + 1,
                     FieldTypeOf(decl, e, VariantNew(e, name, parenttype, st)))

\* decl.fields.map(field => new EitherVariant(field, env, field.id.value, this))
EitherVariants(fields, e, parenttype, acc) ==
  IF fields = <<>> \/ ~acc.ok THEN acc
  ELSE EitherVariants(Tail(fields), e, parenttype,
         FieldTypeAdd(Head(fields), acc,
                      EitherVariant(Head(fields), e, Head(fields).id, parenttype, acc.st)))

\* class EitherType, constructor
EitherType(decl, e, name, st) ==
  FieldsTypeDone(Len(st.types) + 1,
                 EitherVariants(decl.fields, e, Len(st.types) + 1,
                                Acc([st EXCEPT !.types =
                                       Append(@, TypeObj("EitherType", e, name))])))

\* the name of a tag: tag.name
TagName(st, tag) == st.values[tag].name

\* class EitherValue, constructor: the first variant's tag; a nested default
\* only when that variant has a record type
EitherValue(t, st) ==
  LET fts == st.types[t].fieldtypes
      first == st.types[fts[1].type]
      new == [st EXCEPT !.values =
                Append(@, [ValueObj("EitherValue", t) EXCEPT !.tag = first.tag])]
  IN  IF fts = <<>> THEN Ret(FALSE, Undefined, st)
      ELSE IF first.recordtype # Undefined
      THEN Ret(TRUE, Len(st.values) + 1,
               FieldSet(Len(st.values) + 1, TagName(st, first.tag),
                        MakeDefaultValue(first.recordtype, new)))
      ELSE Ret(TRUE, Len(st.values) + 1, new)

\* type.makeDefaultValue(): each Type class returns a new Value of its class
MakeDefaultValue(t, st) ==
  LET kind == st.types[t].kind
  IN  IF kind = "range" THEN RangeValue(t, st)
      ELSE IF kind = "record" THEN RecordValue(t, st)
      ELSE IF kind = "either" THEN MainEitherValue(t, st)
      ELSE IF kind = "array" THEN ArrayValue(t, st)
      ELSE IF kind = "EitherType" THEN EitherValue(t, st)
      ELSE Ret(FALSE, Undefined, st)

-----------------------------------------------------------------------------
(* Mutation.  A call that throws returns ok = FALSE. *)

Done(ok, st) == [ok |-> ok, st |-> st]

\* RangeValue.assign, had it refused the lower bound itself
RangeValue_assign_LowExcluded(v, newValue, st) ==
  IF newValue <= st.types[st.values[v].type].low
     \/ newValue > st.types[st.values[v].type].high
  THEN Done(FALSE, st)
  ELSE Done(TRUE, [st EXCEPT !.values[v].value = newValue])

\* RangeValue.assign(newValue)
RangeValue_assign(v, newValue, st) ==
  IF newValue < st.types[st.values[v].type].low
     \/ newValue > st.types[st.values[v].type].high
  THEN Done(FALSE, st)
  ELSE Done(TRUE, [st EXCEPT !.values[v].value = newValue])

\* this.value = fieldtype.name; this[this.value] = <the Value d>; assigned = true
MainAssignOne(v, name, d) ==
  Done(TRUE, [d.st EXCEPT !.values[v].variant = name,
                          !.values[v].props = Put(@, name, d.id)])

RECURSIVE MainAssignEach(_, _, _, _)
\* the forEach of part_000's EitherValue.assign: every fieldtype of that name
\* becomes the active one and gets a fresh default; nothing is deleted
MainAssignEach(fts, v, newValue, r) ==
  IF fts = <<>> THEN r
  ELSE IF Head(fts).name = newValue
    THEN MainAssignEach(Tail(fts), v, newValue,
                        MainAssignOne(v, Head(fts).name,
                                      MakeDefaultValue(Head(fts).type, r.st)))
    ELSE MainAssignEach(Tail(fts), v, newValue, r)

\* EitherValue.assign(newValue) of part_000; newValue is a variant's name
MainEitherValue_assign(v, newValue, st) ==
  MainAssignEach(st.types[st.values[v].type].fieldtypes, v, newValue, Done(FALSE, st))

\* the delete, had it been left out
DeleteNested_Kept(v, st) == st

\* let _ = delete this[this.tag.name]
DeleteNested(v, st) ==
  [st EXCEPT !.values[v].props = Delete(@, TagName(st, st.values[v].tag))]

\* this.tag = newValue.tag
SetTag(v, newValue, st) == [st EXCEPT !.values[v].tag = st.values[newValue].tag]

\* if (this.tag.name in newValue) this[this.tag.name] = newValue[this.tag.name]
CopyNested(v, newValue, st) ==
  IF TagName(st, st.values[v].tag) \in DOMAIN st.values[newValue].props
  THEN [st EXCEPT !.values[v].props =
          Put(@, TagName(st, st.values[v].tag),
              st.values[newValue].props[TagName(st, st.values[v].tag)])]
  ELSE st

\* first branch of EitherValue.assign: newValue is an EitherValue of this.type.
\* The test `this.tag.name in newValue` and the read newValue[this.tag.name]
\* happen after the delete, on the heap as the delete left it.
AssignFromValue(v, newValue, st) ==
  CopyNested(v, newValue, SetTag(v, newValue, DeleteNested(v, st)))

\* second branch of EitherValue.assign: newValue is an EitherTag of the same
\* parent type
AssignFromTag(v, newValue, st) ==
  [DeleteNested(v, st) EXCEPT !.values[v].tag = newValue]

\* EitherValue.assign(newValue) of types/either.js; newValue is a Value
EitherValue_assign(v, newValue, st) ==
  IF st.values[newValue].kind = "EitherValue"
     /\ st.values[v].type = st.values[newValue].type
  THEN Done(TRUE, AssignFromValue(v, newValue, st))
  ELSE IF st.values[newValue].kind = "EitherTag"
          /\ st.types[st.values[newValue].type].parenttype
               = st.types[st.values[st.values[v].tag].type].parenttype
  THEN Done(TRUE, AssignFromTag(v, newValue, st))
  ELSE Done(FALSE, st)

\* EitherTag.equals(other)
EitherTag_equals(a, b, st) ==
  st.values[a].type = st.values[b].type /\ st.values[a].name = st.values[b].name

\* EitherValue.equals(other): "true", "false", or the error it throws.  With a
\* nested value present the operand other[othe.tag.name] names the undeclared
\* identifier othe, whose evaluation throws a ReferenceError.
EitherValue_equals(a, b, st) ==
  IF st.values[a].type # st.values[b].type THEN "false"
  ELSE IF st.values[a].tag # st.values[b].tag THEN "false"
  ELSE IF TagName(st, st.values[a].tag) \in DOMAIN st.values[a].props THEN "ReferenceError"
  ELSE "true"

-----------------------------------------------------------------------------
(* Rendering *)

RECURSIVE toString(_, _)
RECURSIVE innerToString(_, _)
RECURSIVE JoinFields(_, _, _)
RECURSIVE JoinItems(_, _, _)

\* type.getName(); an absent name is undefined, which a template prints so
getName(type) == type.name

\* decl.fields.map(v => `${v.id.value}: ${this[v.id.value].toString()}`).join(', ')
JoinFields(fts, v, st) ==
  IF fts = <<>> THEN ""
  ELSE LET one == Head(fts).name \o ": " \o toString(st.values[v].props[Head(fts).name], st)
       IN  IF Len(fts) = 1 THEN one
           ELSE one \o ", " \o JoinFields(Tail(fts), v, st)

\* items.map((v, i) => `${indextype.low + i}: ${v.toString()}`).join(', ')
JoinItems(items, i, st) ==
  IF items = <<>> THEN ""
  ELSE LET one == ToString(i) \o ": " \o toString(Head(items), st)
       IN  IF Len(items) = 1 THEN one
           ELSE one \o ", " \o JoinItems(Tail(items), i + 1, st)

\* value.innerToString()
innerToString(v, st) ==
  LET this == st.values[v]
      type == st.types[this.type]
  IN  IF this.kind = "range" THEN ToString(this.value)
      ELSE IF this.kind = "record" THEN JoinFields(type.fieldtypes, v, st)
      ELSE IF this.kind = "either" THEN toString(this.props[this.variant], st)
      ELSE IF this.kind = "EitherTag" THEN this.name
      ELSE IF this.kind = "EitherValue" THEN
        IF TagName(st, this.tag) \in DOMAIN this.props
        THEN toString(this.props[TagName(st, this.tag)], st)
        ELSE toString(this.tag, st)
      ELSE "TypeError"

\* value.toString()
toString(v, st) ==
  LET this == st.values[v]
      type == st.types[this.type]
  IN  IF this.kind = "range" THEN
        IF getName(type) = NoName THEN ToString(this.value)
        ELSE getName(type) \o "(" \o ToString(this.value) \o ")"
      ELSE IF this.kind = "record" THEN
        getName(type) \o " { " \o JoinFields(type.fieldtypes, v, st) \o " }"
      ELSE IF this.kind = "either" THEN
        LET fields == innerToString(this.props[this.variant], st)
        IN  IF fields = "" THEN this.variant
            ELSE this.variant \o " { " \o fields \o " }"
      ELSE IF this.kind = "array" THEN
        "[" \o JoinItems(this.items, st.types[type.indextype].low, st) \o "]"
      ELSE IF this.kind = "EitherTag" THEN this.name
      ELSE IF this.kind = "EitherValue" THEN
        IF TagName(st, this.tag) \in DOMAIN this.props
        THEN toString(this.tag, st) \o " { "
               \o innerToString(this.props[TagName(st, this.tag)], st) \o " }"
        ELSE toString(this.tag, st)
      ELSE "TypeError"

-----------------------------------------------------------------------------
(* State changes shared by the specifications *)

Cur == Store(types, values, env)

Commit(st) ==
  /\ types' = st.types
  /\ values' = st.values
  /\ env' = st.env

\* the record of a call: its receiver, argument, whether it returned, what
\* it returned (an object, or a text)
Op(name, self, arg, ok, ret, text) ==
  [name |-> name, self |-> self, arg |-> arg, ok |-> ok, ret |-> ret, text |-> text]

EmptyStore == Store(<<>>, <<>>, <<Environment(0)>>)

InitStore(st) ==
  /\ types = st.types
  /\ values = st.values
  /\ env = st.env

\* the call returned the object r.id
Returned(name, self, text, r) ==
  /\ r.ok
  /\ Commit(r.st)
  /\ op' = Op(name, self, 0, TRUE, r.id, text)

\* the call threw
Threw(name, self, text, r) ==
  /\ ~r.ok
  /\ Commit(r.st)
  /\ op' = Op(name, self, 0, FALSE, 0, text)

\* a call of assign returned or threw
Assigned(name, self, arg, ret, text, r) ==
  /\ Commit(r.st)
  /\ op' = Op(name, self, arg, r.ok, ret, text)

-----------------------------------------------------------------------------
(* The declaration loader: load(parsed, env) of part_000, one declaration   *)
(* per step, and the main program around it: loadPrelude() into a new        *)
(* Environment, then load of the module into a child of the prelude.        *)

NoDefault == [kind |-> "none", value |-> 0]
Number(n) == [kind |-> "number", value |-> n]

Stmt(kind, id, type, default) ==
  [kind |-> kind, id |-> id, type |-> type, default |-> default]

\* the types the loaded declarations use
LoadRangeDecls ==
  {[TypeDecl("range") EXCEPT !.low = l, !.high = h] : l, h \in {0, MaxLit}}
LoadTypeDecls ==
  LoadRangeDecls \cup AliasDecls \cup OtherDecls
  \cup {[TypeDecl("record") EXCEPT
           !.fields = <<Field("x", [TypeDecl("range") EXCEPT !.high = MaxLit])>>]}

\* declared defaults: none, the ends of the literals, one beyond each end
Defaults == {NoDefault} \cup {Number(n) : n \in {-1, 0, MaxLit, MaxLit + 1}}

Stmts ==
  {Stmt("typedecl", id, t, NoDefault) : id \in TypeNames, t \in LoadTypeDecls}
  \cup {Stmt(k, id, t, d) : k \in {"paramdecl", "vardecl"}, id \in VarNames,
                            t \in LoadTypeDecls, d \in Defaults}
  \cup {Stmt(k, "r", TypeDecl("none"), NoDefault) : k \in {"rule", "rulefor", "bogus"}}

\* value.assign(decl.default.value) as load calls it, on whatever class the
\* value has: a RangeValue compares the number with its bounds, an
\* EitherValue of part_000 finds no variant whose name equals a number, and
\* RecordValue and ArrayValue have no assign (a TypeError)
Value_assign(v, default, st) ==
  IF st.values[v].kind = "range" THEN RangeValue_assign(v, default.value, st)
  ELSE Done(FALSE, st)

\* env.assignVar(decl.id.value, value), reached when assign returned
LoadVarBind(decl, e, id, a) ==
  IF ~a.ok THEN Ret(FALSE, Undefined, a.st)
  ELSE Ret(TRUE, id, [a.st EXCEPT !.env = assignVar(@, e, decl.id, id)])

\* the declared default, had the name been bound before it is assigned
LoadVarDefault_BindFirst(decl, e, v) ==
  IF ~v.ok THEN v
  ELSE IF decl.default = NoDefault
    THEN Ret(decl.kind # "paramdecl", v.id,
             [v.st EXCEPT !.env = assignVar(@, e, decl.id, v.id)])
    ELSE LoadVarBind(decl, e, v.id,
           Done(Value_assign(v.id, decl.default, v.st).ok,
                [Value_assign(v.id, decl.default, v.st).st EXCEPT
                   !.env = assignVar(@, e, decl.id, v.id)]))

\* value.assign(decl.default.value): always for a paramdecl (reading
\* decl.default.value without a default is a TypeError), for a vardecl when
\* decl.default !== undefined; then the binding
LoadVarDefault(decl, e, v) ==
  IF ~v.ok THEN v
  ELSE IF decl.default = NoDefault
    THEN IF decl.kind = "paramdecl" THEN Ret(FALSE, Undefined, v.st)
         ELSE LoadVarBind(decl, e, v.id, Done(TRUE, v.st))
    ELSE LoadVarBind(decl, e, v.id, Value_assign(v.id, decl.default, v.st))

\* let value = type.makeDefaultValue()
LoadVarValue(decl, e, t) ==
  IF ~t.ok THEN t
  ELSE LoadVarDefault(decl, e, MakeDefaultValue(t.id, t.st))

\* the paramdecl and vardecl branches: let type = Type.make(decl.type, env)
LoadVar(decl, e, st) == LoadVarValue(decl, e, TypeMake(decl.type, e, NoName, st))

\* env.assignType(decl.id.value, <the Type t>)
LoadTypeBind(decl, e, t) ==
  IF ~t.ok THEN t
  ELSE Ret(TRUE, t.id, [t.st EXCEPT !.env = assignType(@, e, decl.id, t.id)])

\* the typedecl branch: env.assignType(decl.id.value, Type.make(decl.type, env, decl.id))
LoadType(decl, e, st) == LoadTypeBind(decl, e, TypeMake(decl.type, e, decl.id, st))

\* one iteration of parsed.value.forEach
LoadStep(decl, e, st) ==
  IF decl.kind = "typedecl" THEN LoadType(decl, e, st)
  ELSE IF decl.kind \in {"paramdecl", "vardecl"} THEN LoadVar(decl, e, st)
  ELSE IF decl.kind \in {"rule", "rulefor"} THEN Ret(TRUE, Undefined, st)
  ELSE Ret(FALSE, Undefined, st)

Init ==
  /\ types = <<>>
  /\ values = <<>>
  /\ env = <<Environment(0)>>
  /\ cur = 1
  /\ phase = "prelude"
  /\ nloaded = 0
  /\ ncalls = 0
  /\ input = Stmt("none", "", TypeDecl("none"), NoDefault)
  /\ op = Op("new Environment", 0, 0, TRUE, 0, "")

Loading == phase \in {"prelude", "module"}

\* if (!parsed.status) throw: the parser reports a parse error
ParseError ==
  /\ Loading
  /\ op.name \in {"new Environment"}
  /\ phase' = "thrown"
  /\ op' = Op("parse", 0, 0, FALSE, 0, "")
  /\ UNCHANGED <<types, values, env, cur, nloaded, ncalls, input>>

\* forEach reaches a declaration that is processed to its end
LoadDecl ==
  /\ Loading
  /\ nloaded < MaxDecls
  /\ \E decl \in Stmts :
       /\ Returned(decl.kind, 0, decl.id, LoadStep(decl, cur, Cur))
       /\ input' = decl
  /\ nloaded' = nloaded + 1
  /\ UNCHANGED <<phase, cur, ncalls>>

\* forEach reaches a declaration that throws: the error leaves forEach, load
\* and the program, which catches nothing
LoadDeclThrows ==
  /\ Loading
  /\ nloaded < MaxDecls
  /\ \E decl \in Stmts :
       /\ Threw(decl.kind, 0, decl.id, LoadStep(decl, cur, Cur))
       /\ input' = decl
  /\ nloaded' = nloaded + 1
  /\ phase' = "thrown"
  /\ UNCHANGED <<cur, ncalls>>

\* loadPrelude returns; env = new Environment(prelude)
PreludeLoaded ==
  /\ phase = "prelude"
  /\ env' = Append(env, Environment(1))
  /\ cur' = 2
  /\ phase' = "module"
  /\ op' = Op("new Environment", 0, 0, TRUE, 0, "")
  /\ UNCHANGED <<types, values, nloaded, ncalls, input>>

\* load of the module returns env
ModuleLoaded ==
  /\ phase = "module"
  /\ phase' = "loaded"
  /\ op' = Op("load", 0, 0, TRUE, 0, "")
  /\ UNCHANGED <<types, values, env, cur, nloaded, ncalls, input>>

\* a caller of load assigns to a range value it reached from the environment
Assign ==
  /\ phase = "loaded"
  /\ ncalls < MaxCalls
  /\ \E v \in DOMAIN values, n \in AssignInts :
       /\ values[v].kind = "range"
       /\ Assigned("assign", v, n, 0, "", RangeValue_assign(v, n, Cur))
  /\ ncalls' = ncalls + 1
  /\ UNCHANGED <<phase, cur, nloaded, input>>

Next ==
  \/ ParseError
  \/ LoadDecl
  \/ LoadDeclThrows
  \/ PreludeLoaded
  \/ ModuleLoaded
  \/ Assign

Spec == Init /\ [][Next]_vars

-----------------------------------------------------------------------------
(* SpecTypes: Type.make on one declaration, then makeDefaultValue on the    *)
(* Type it returned.  The environment holds `type A: l..h`; B is unbound.   *)

InitTypes ==
  /\ \E d \in RangeDecls :
       InitStore(LoadType(Stmt("typedecl", "A", d, NoDefault), 1, EmptyStore).st)
  /\ input \in AllTypeDecls \cup EitherJsDecls
  /\ phase = "decl"
  /\ cur = 1
  /\ nloaded = 1
  /\ ncalls = 0
  /\ op = Op("load", 0, 0, TRUE, 0, "")

MakeType ==
  /\ phase = "decl"
  /\ input \in AllTypeDecls
  /\ Returned("Type.make", 0, "", TypeMake(input, cur, NoName, Cur))
  /\ phase' = "type"
  /\ UNCHANGED <<cur, nloaded, ncalls, input>>

\* new EitherType(decl, env, name) of types/either.js
MakeEitherType ==
  /\ phase = "decl"
  /\ input \in EitherJsDecls
  /\ Returned("new EitherType", 0, "", EitherType(input, cur, NoName, Cur))
  /\ phase' = "type"
  /\ UNCHANGED <<cur, nloaded, ncalls, input>>

\* new EitherType throws: a variant's record type cannot be built
MakeEitherTypeThrows ==
  /\ phase = "decl"
  /\ input \in EitherJsDecls
  /\ Threw("new EitherType", 0, "", EitherType(input, cur, NoName, Cur))
  /\ phase' = "thrown"
  /\ UNCHANGED <<cur, nloaded, ncalls, input>>

MakeTypeThrows ==
  /\ phase = "decl"
  /\ input \in AllTypeDecls
  /\ Threw("Type.make", 0, "", TypeMake(input, cur, NoName, Cur))
  /\ phase' = "thrown"
  /\ UNCHANGED <<cur, nloaded, ncalls, input>>

MakeValue ==
  /\ phase = "type"
  /\ Returned("makeDefaultValue", op.ret, "", MakeDefaultValue(op.ret, Cur))
  /\ phase' = "value"
  /\ UNCHANGED <<cur, nloaded, ncalls, input>>

\* client code assigns a variant's name to the EitherValue of part_000 it made
MainAssign ==
  /\ phase = "value"
  /\ values[op.ret].kind = "either"
  /\ \E name \in {"P", "Q", "R"} :
       Assigned("assign", op.ret, 0, op.ret, name, MainEitherValue_assign(op.ret, name, Cur))
  /\ phase' = "assigned"
  /\ UNCHANGED <<cur, nloaded, ncalls, input>>

NextTypes ==
  \/ MakeType
  \/ MakeEitherType
  \/ MakeEitherTypeThrows
  \/ MakeTypeThrows
  \/ MakeValue
  \/ MainAssign

SpecTypes == InitTypes /\ [][NextTypes]_vars

-----------------------------------------------------------------------------
(* SpecEither: the EitherValues of types/either.js under client calls.      *)
(* Two either types T and U are declared alike,                             *)
(*   either { A { x: 0..1 }, B }                                            *)
(* A a record variant, B an enum variant.  Client code makes EitherValues   *)
(* of T, assigns to them the tags of T and of U, EitherValues, and values   *)
(* that are neither, compares them, and assigns to the fields of whatever   *)
(* record it holds a reference to: any record ever created, among them      *)
(* those an EitherValue has dropped.                                        *)

EitherDeclAB ==
  [TypeDecl("either") EXCEPT !.fields =
     <<RecordVariant("A", [TypeDecl("record") EXCEPT !.fields =
                             <<Field("x", [TypeDecl("range") EXCEPT !.high = 1])>>]),
       EnumVariant("B")>>]

\* the integers client code assigns to the field x: its two values and one
\* that the range refuses
FieldInts == {0, 1, 2}

\* `type name: either { A { x: 0..1 }, B }` as types/either.js builds it
DeclareEither(name, st) ==
  LoadTypeBind(Stmt("typedecl", name, EitherDeclAB, NoDefault), 1,
               EitherType(EitherDeclAB, 1, name, st)).st

InitEither ==
  /\ InitStore(DeclareEither("U", DeclareEither("T", EmptyStore)))
  /\ cur = 1
  /\ phase = "loaded"
  /\ nloaded = 2
  /\ ncalls = 0
  /\ input = Stmt("typedecl", "U", EitherDeclAB, NoDefault)
  /\ op = Op("load", 0, 0, TRUE, 0, "")

EitherValues == {v \in DOMAIN values : values[v].kind = "EitherValue"}
\* the type bound to T
EitherT == getType(env, cur, "T")

\* T.makeDefaultValue()
NewEither ==
  /\ Cardinality(EitherValues) < MaxEithers
  /\ Returned("makeDefaultValue", EitherT, "", MakeDefaultValue(EitherT, Cur))
  /\ UNCHANGED <<phase, cur, nloaded, ncalls, input>>

\* value.assign(newValue) on an EitherValue, newValue any Value
EitherAssign ==
  /\ \E v \in EitherValues, n \in DOMAIN values :
       Assigned("assign", v, n, 0, "", EitherValue_assign(v, n, Cur))
  /\ UNCHANGED <<phase, cur, nloaded, ncalls, input>>

\* record.x.assign(n) on a field of a record client code holds
FieldAssign ==
  /\ \E v \in DOMAIN values, n \in FieldInts :
       /\ values[v].kind = "range"
       /\ Assigned("field.assign", v, n, 0, "", RangeValue_assign(v, n, Cur))
  /\ UNCHANGED <<phase, cur, nloaded, ncalls, input>>

\* a.equals(b) on two EitherValues
EitherEquals ==
  /\ \E a \in EitherValues, b \in EitherValues :
       op' = Op("equals", a, b, EitherValue_equals(a, b, Cur) # "ReferenceError", 0,
                EitherValue_equals(a, b, Cur))
  /\ UNCHANGED <<types, values, env, phase, cur, nloaded, ncalls, input>>

NextEither == NewEither \/ EitherAssign \/ FieldAssign \/ EitherEquals

SpecEither == InitEither /\ [][NextEither]_vars

-----------------------------------------------------------------------------
(* Shapes of values, read off the heaps of the current state *)

RangeOf(f) == {f[i] : i \in DOMAIN f}

\* the values a value holds: a record's fields and an either's nested values
\* (props), an array's items
Held(v) == RangeOf(values[v].props) \cup RangeOf(values[v].items)

RECURSIVE Below(_)
\* v and every value reachable from it
Below(v) == {v} \cup UNION {Below(c) : c \in Held(v)}

RECURSIVE Separate(_)
\* nothing below v is held twice: every slot holds an object of its own
Separate(v) ==
  /\ Cardinality(RangeOf(values[v].props)) = Cardinality(DOMAIN values[v].props)
  /\ Cardinality(RangeOf(values[v].items)) = Len(values[v].items)
  /\ \A c1, c2 \in Held(v) : c1 # c2 => Below(c1) \cap Below(c2) = {}
  /\ \A c \in Held(v) : Separate(c)

FieldNames(fts) == {fts[i].name : i \in DOMAIN fts}

RECURSIVE IsDefault(_, _)
\* v is the default value of type t, as the specification describes it
IsDefault(v, t) ==
  LET this == values[v]
      type == types[t]
  IN  /\ this.type = t
      /\ IF type.kind = "range" THEN
           /\ this.kind = "range"
           /\ this.value = type.low
           /\ type.low <= this.value /\ this.value <= type.high
         ELSE IF type.kind = "record" THEN
           /\ this.kind = "record"
           /\ DOMAIN this.props = FieldNames(type.fieldtypes)
           /\ \A i \in DOMAIN type.fieldtypes :
                IsDefault(this.props[type.fieldtypes[i].name], type.fieldtypes[i].type)
         ELSE IF type.kind = "either" THEN
           /\ this.kind = "either"
           /\ this.variant = type.fieldtypes[1].name
           /\ DOMAIN this.props = {this.variant}
           /\ IsDefault(this.props[this.variant], type.fieldtypes[1].type)
         ELSE IF type.kind = "EitherType" THEN
           LET first == types[type.fieldtypes[1].type]
           IN  /\ this.kind = "EitherValue"
               /\ this.tag = first.tag
               /\ IF first.recordtype # Undefined
                  THEN /\ DOMAIN this.props = {values[first.tag].name}
                       /\ IsDefault(this.props[values[first.tag].name], first.recordtype)
                  ELSE DOMAIN this.props = {}
         ELSE IF type.kind = "array" THEN
           /\ this.kind = "array"
           /\ Len(this.items) = types[type.indextype].high - types[type.indextype].low + 1
           /\ \A i \in DOMAIN this.items : IsDefault(this.items[i], type.valuetype)
         ELSE FALSE

\* every range type below type t has its bounds in order
RECURSIVE Ordered(_)
Ordered(t) ==
  LET type == types[t]
  IN  /\ type.kind = "range" => type.low <= type.high
      /\ \A i \in DOMAIN type.fieldtypes : Ordered(type.fieldtypes[i].type)
      /\ type.recordtype # Undefined => Ordered(type.recordtype)
      /\ type.valuetype # Undefined => Ordered(type.valuetype)
      /\ type.indextype # Undefined => Ordered(type.indextype)

-----------------------------------------------------------------------------
(* Claims about the factory and the default values (SpecTypes) *)

\* C5: for every Type T that Type.make builds, T.makeDefaultValue() is
\* structurally valid: a range value equals low and lies in [low, high], a
\* record value has one default child per declared field, an either value has
\* the first declared variant active with its default nested value, an array
\* value has high-low+1 children, and every child is an object of its own.
C5_DefaultValueValid ==
  phase = "value" => IsDefault(op.ret, op.self) /\ Separate(op.ret)

\* The same for the types all of whose ranges were declared with low <= high.
DefaultValueValidWhenOrdered ==
  (phase = "value" /\ Ordered(op.self)) => IsDefault(op.ret, op.self) /\ Separate(op.ret)

-----------------------------------------------------------------------------
(* Claims about the loader and range values (Spec) *)

\* C1: for every RangeType(low, high) and integer v, assign(v) succeeds and
\* sets value to v if and only if low <= v <= high; when it fails the value
\* held before the call is unchanged.
C1_RangeAssign ==
  [][op'.name = "assign" =>
       LET v == op'.self
           n == op'.arg
           type == types[values[v].type]
       IN  /\ op'.ok <=> (type.low <= n /\ n <= type.high)
           /\ op'.ok => values'[v].value = n
           /\ ~op'.ok => values'[v].value = values[v].value]_vars

\* an assign above the range was refused on a value that was not at its low
C1_Witness ==
  /\ op.name = "assign"
  /\ ~op.ok
  /\ op.arg > types[values[op.self].type].high
  /\ values[op.self].value # types[values[op.self].type].low

\* C8: Type.make on an alias referring to a bound name returns the Type
\* object the name is bound to and creates no Type; after `type B: A` both
\* names denote that one object, and a value declared through an alias has
\* that object as its type.
C8_AliasSameObject ==
  [][(op'.ok /\ op'.name \in {"typedecl", "paramdecl", "vardecl"}
        /\ input'.type.kind = "alias") =>
       LET t == getType(env, cur, input'.type.value)
       IN  /\ t # Undefined
           /\ types' = types
           /\ op'.name = "typedecl" =>
                /\ op'.ret = t
                /\ getType(env', cur, input'.id) = t
                /\ getType(env', cur, input'.type.value) = t
           /\ op'.name # "typedecl" => values'[op'.ret].type = t]_vars

\* `type B: A` was loaded with A bound
C8_Witness ==
  /\ op.name = "typedecl"
  /\ op.ok
  /\ input.type.kind = "alias"
  /\ input.id # input.type.value
  /\ getType(env, cur, input.id) = getType(env, cur, input.type.value)

\* C9: every RangeType that exists has low <= high, and every RangeValue
\* satisfies low <= value <= high (Type.make refuses a range with low > high).
C9_RangesOrdered ==
  /\ \A t \in DOMAIN types : types[t].kind = "range" => types[t].low <= types[t].high
  /\ \A v \in DOMAIN values :
       values[v].kind = "range" =>
         /\ types[values[v].type].low <= values[v].value
         /\ values[v].value <= types[values[v].type].high

\* C10, as stated: once a declaration has failed, the name it declares is
\* not bound in the environment.
C10_FailedNameUnbound ==
  phase = "thrown" =>
    /\ op.name = "typedecl" => getType(env, cur, op.text) = Undefined
    /\ op.name \in {"paramdecl", "vardecl"} => getVar(env, cur, op.text) = Undefined

\* C10, amended: a declaration that fails binds nothing (the environment is
\* what the declarations before it left, so its name keeps the binding an
\* earlier declaration or the prelude gave it, if any), and nothing happens
\* after the failure: no later declaration takes effect and load does not
\* return.
C10_FailedDeclBindsNothing ==
  [][/\ phase # "thrown"
     /\ phase' = "thrown" => env' = env]_vars

\* a vardecl or paramdecl failed on its default, after its type was resolved
C10_Witness ==
  /\ phase = "thrown"
  /\ op.name \in {"paramdecl", "vardecl"}
  /\ input.default # NoDefault
  /\ input.type.kind \in {"range", "alias"}
  /\ (input.type.kind = "alias" => getType(env, cur, input.type.value) # Undefined)

-----------------------------------------------------------------------------
(* Claims about the EitherValues of types/either.js (SpecEither) *)

\* the variant (an EitherVariant Type) active in the EitherValue v
ActiveVariant(v) == types[values[values[v].tag].type]
\* the name of the tag active in v
ActiveName(v) == values[values[v].tag].name
\* v has a nested value under the name of its active tag
HasNested(v) == ActiveName(v) \in DOMAIN values[v].props
\* v is at an enum variant and holds nothing
Cleared(v) ==
  /\ ActiveVariant(v).recordtype = Undefined
  /\ DOMAIN values[v].props = {}
  /\ toString(v, Cur) = ActiveName(v)

RECURSIVE Equal(_, _)
\* structural equality as the specification defines it
Equal(a, b) ==
  /\ values[a].type = values[b].type
  /\ IF values[a].kind = "range" THEN values[a].value = values[b].value
     ELSE IF values[a].kind = "EitherValue" THEN
       /\ values[a].tag = values[b].tag
       /\ DOMAIN values[a].props = DOMAIN values[b].props
       /\ \A n \in DOMAIN values[a].props : Equal(values[a].props[n], values[b].props[n])
     ELSE /\ DOMAIN values[a].props = DOMAIN values[b].props
          /\ \A n \in DOMAIN values[a].props : Equal(values[a].props[n], values[b].props[n])

\* C2: every EitherValue, after any sequence of assign calls, holds exactly
\* one nested value, under the name of its active tag, when the active
\* variant is a record variant, and holds no nested value under any name when
\* the active variant is an enum variant.
C2_OneNestedValue ==
  \A v \in EitherValues :
    IF ActiveVariant(v).recordtype # Undefined
    THEN DOMAIN values[v].props = {ActiveName(v)}
    ELSE DOMAIN values[v].props = {}

\* C3: after dst.assign(src), src an EitherValue of dst's type (src may be dst
\* itself), dst has the tag src had before the call, and the nested value src
\* had before the call: a nested value if and only if src had one, and then
\* one that reads as src's did.
C3_AssignCopiesSource ==
  [][(op'.name = "assign" /\ op'.ok /\ values[op'.arg].kind = "EitherValue") =>
       /\ values'[op'.self].tag = values[op'.arg].tag
       /\ (values'[values'[op'.self].tag].name \in DOMAIN values'[op'.self].props)
            <=> HasNested(op'.arg)
       /\ toString(op'.self, Store(types', values', env')) = toString(op'.arg, Cur)]_vars

\* C4: for an either type with a record variant A and an enum variant B, the
\* default value has tag A and a default record; after the tag B is assigned
\* the value has tag B and no nested value; and an assignment to a field of
\* any record, the dropped one included, leaves every value that is at B with
\* no nested value as it is: at B, with no nested value, rendering as B.
C4_EnumTagClears ==
  /\ [](/\ op.name = "makeDefaultValue" => IsDefault(op.ret, op.self)
        /\ (op.name = "assign" /\ op.ok /\ values[op.arg].kind = "EitherTag"
              /\ types[values[op.arg].type].recordtype = Undefined) =>
             /\ values[op.self].tag = op.arg
             /\ Cleared(op.self))
  /\ [][op'.name = "field.assign" =>
          \A v \in EitherValues : Cleared(v) => Cleared(v)']_vars

\* a field of a record that no EitherValue holds any more was set to 1, in a
\* state where an EitherValue made at A is at B
C4_Witness ==
  /\ op.name = "field.assign"
  /\ op.ok
  /\ values[op.self].value = 1
  /\ \A v \in EitherValues : op.self \notin Below(v)
  /\ \E v \in EitherValues : Cleared(v) /\ ActiveName(v) = "B"

\* C6: a.equals(b) returns true when a and b have the same type, the same
\* active tag and no nested value or equal nested values, and false
\* otherwise; a.equals(a) returns true.
C6_EqualsStructural ==
  op.name = "equals" =>
    op.text = (IF Equal(op.self, op.arg) THEN "true" ELSE "false")

\* C7: no value is held by two distinct containers.
C7_NestedOwnedOnce ==
  \A a, b \in DOMAIN values : a # b => Held(a) \cap Held(b) = {}

====
